---- MODULE Spec2Model ----
(***************************************************************************)
(* librand/os.rs: OSRng, the random number generator backed by the         *)
(* operating system.  Two builds exist, chosen by cfg: the unix one reads  *)
(* /dev/urandom through ReaderRng<File>, the windows one holds an          *)
(* HCRYPTPROV and calls CryptAcquireContextA / CryptGenRandom /            *)
(* CryptReleaseContext.  The module models both builds, an owner that      *)
(* uses one instance freely (Spec) and the test test_os_rng_tasks          *)
(* (SpecTasks, SpecTasksOK).                                               *)
(*                                                                         *)
(* Unsigned machine integers (u32, u64, uint, DWORD) are little-endian     *)
(* sequences of 16-bit limbs: <<l1, l2>> is l1 + 65536 * l2.  uint is      *)
(* modelled with four limbs (the widest target); DWORD and u32 have two.   *)
(***************************************************************************)
EXTENDS Integers, Sequences, FiniteSets, TLC

VARIABLES
    variant,      \* "unix" | "windows": which `mod imp` the build compiled
    pc,           \* per task: where the owning task is
    st,           \* per task: lifecycle of the task's OSRng value
    hcryptprov,   \* per task: OSRng.hcryptprov (windows), 0 = no value
    inner,        \* per task: the descriptor inside OSRng.inner (unix), 0 = none
    osLive,       \* native resources the operating system holds open
    acquired,     \* per task: what the native acquisition of new() returned
    calls,        \* per task: native generation / release calls issued
    used,         \* per task: handles passed to generation / release calls
    acqFailed,    \* per task: the native acquisition of new() failed
    draws,        \* per task: draw operations started (free owner only)
    out,          \* outcome of the last draw operation whose owner looks at it
    aborted,      \* the process was aborted (failure while unwinding)
    spawned,      \* test_os_rng_tasks: tasks spawned so far (= length of txs)
    sent,         \* test_os_rng_tasks: start signals sent so far
    chan,         \* test_os_rng_tasks: per task, messages waiting in its channel
    iter          \* test_os_rng_tasks: per task, iterations completed

vars == <<variant, pc, st, hcryptprov, inner, osLive, acquired, calls, used,
          acqFailed, draws, out, aborted, spawned, sent, chan, iter>>

instVars == <<st, hcryptprov, inner, osLive, acquired, calls, used, acqFailed>>
testVars == <<spawned, sent, chan, iter>>

\* ---------------------------------------------------------------- bounds
\* Number of tasks of test_os_rng_tasks (20 in the test).
NWorkers == 2
\* Iterations of each task's loop (100 in the test).
Iterations == 2
\* Draw operations a free owner performs on its instance.
MaxDraws == 2
\* Largest buffer whose device reads are enumerated chunk by chunk (unix).
MaxLen == 3

Tasks == 1 .. NWorkers
\* Handle values the operating system may hand out (never 0).
Handles == 1 .. NWorkers

\* ------------------------------------------------------- machine integers
LimbBase == 256 * 256

\* uint value of a small natural number (n < 2^31).
U(n) == <<n % LimbBase, n \div LimbBase, 0, 0>>

\* `x as DWORD`: the low 32 bits of a uint.
as_DWORD(x) == SubSeq(x, 1, 2)

\* A DWORD widened back to uint.
ZeroExtend(d) == d \o <<0, 0>>

\* The natural number a DWORD stands for when it is below 65536, else -1.
SmallValue(d) == IF d[2] = 0 THEN d[1] ELSE -1

\* Buffers: the length is a uint; the bytes are tracked for short buffers only.
Tracked(len) == len[2] = 0 /\ len[3] = 0 /\ len[4] = 0 /\ len[1] <= 8
ZeroBuf(n) == [len |-> U(n), data |-> [i \in 1 .. n |-> 0]]
BigBuf(len) == [len |-> len, data |-> <<>>]
MkBuf(len) == IF Tracked(len) THEN ZeroBuf(len[1]) ELSE BigBuf(len)

\* cast::transmute of [u8, ..4] / [u8, ..8] to u32 / u64 on a little-endian
\* target: byte 2k-1 is the low half of limb k, byte 2k the high half.
\* (transmute_swapped: the same with the two bytes of each limb exchanged.)
transmute_swapped(v) ==
    [k \in 1 .. (Len(v) \div 2) |-> v[2 * k] + 256 * v[2 * k - 1]]
transmute(v) == [k \in 1 .. (Len(v) \div 2) |-> v[2 * k - 1] + 256 * v[2 * k]]

\* ------------------------------------------------------- native functions
\* Byte strings the provider may produce (the first dwLen of them are written).
Samples == { [i \in 1 .. 8 |-> 0], [i \in 1 .. 8 |-> 255],
             [i \in 1 .. 8 |-> i], [i \in 1 .. 8 |-> 255 - 16 * i] }

\* CryptAcquireContextA(&mut hcp, ...): ret # 0 stores a fresh handle in *phProv.
CryptAcquireContextA(hcp, ret, h) ==
    [ret |-> ret, hcp |-> IF ret # 0 THEN h ELSE hcp]

\* CryptGenRandom(hProv, dwLen, pbBuffer): ret # 0 writes dwLen bytes at pbBuffer.
CryptGenRandom(hProv, dwLen, buf, ret, bytes) ==
    LET n == SmallValue(dwLen)
    IN  [ret |-> ret,
         hProv |-> hProv,
         dwLen |-> dwLen,
         written |-> IF ret # 0 THEN dwLen ELSE <<0, 0>>,
         bytes |-> IF ret # 0 /\ Len(buf.data) > 0
                   THEN [i \in 1 .. n |-> bytes[i]] ELSE <<>>,
         buf |-> IF ret # 0
                 THEN [buf EXCEPT !.data =
                          [i \in 1 .. Len(buf.data) |->
                              IF i <= n THEN bytes[i] ELSE buf.data[i]]]
                 ELSE buf]

\* CryptReleaseContext(hProv, 0)
CryptReleaseContext(hProv, ret) == [ret |-> ret, hProv |-> hProv]

\* ------------------------------------------------------- windows: impl OSRng
NoValue == [hcryptprov |-> 0]

\* OSRng::new (windows) without the `if ret == 0` test.
new_unchecked(ret, h) ==
    LET r == CryptAcquireContextA(0, ret, h)
    IN  [failed |-> FALSE, self |-> [hcryptprov |-> r.hcp]]

\* OSRng::new (windows) that leaves the field at its initial 0.
new_zero(ret, h) ==
    LET r == CryptAcquireContextA(0, ret, h)
    IN  IF r.ret = 0 THEN [failed |-> TRUE, self |-> NoValue]
        ELSE [failed |-> FALSE, self |-> [hcryptprov |-> 0]]

\* OSRng::new (windows)
new(ret, h) ==
    LET r == CryptAcquireContextA(0, ret, h)
    IN  IF r.ret = 0 THEN [failed |-> TRUE, self |-> NoValue]
        ELSE [failed |-> FALSE, self |-> [hcryptprov |-> r.hcp]]

\* fill_bytes (windows) without the `if ret == 0` test.
fill_bytes_unchecked(self, v, ret, bytes) ==
    LET r == CryptGenRandom(self.hcryptprov, as_DWORD(v.len), v, ret, bytes)
    IN  [failed |-> FALSE, v |-> r.buf, native |-> <<r>>]

\* fill_bytes (windows)
fill_bytes(self, v, ret, bytes) ==
    LET r == CryptGenRandom(self.hcryptprov, as_DWORD(v.len), v, ret, bytes)
    IN  [failed |-> r.ret = 0, v |-> r.buf, native |-> <<r>>]

\* next_u32 (windows)
next_u32(self, ret, bytes) ==
    LET f == fill_bytes(self, ZeroBuf(4), ret, bytes)
    IN  [failed |-> f.failed, v |-> f.v, native |-> f.native,
         value |-> IF f.failed THEN <<>> ELSE transmute(f.v.data)]

\* next_u64 (windows)
next_u64(self, ret, bytes) ==
    LET f == fill_bytes(self, ZeroBuf(8), ret, bytes)
    IN  [failed |-> f.failed, v |-> f.v, native |-> f.native,
         value |-> IF f.failed THEN <<>> ELSE transmute(f.v.data)]

\* Drop::drop that releases the context twice.
drop_twice(self, ret) ==
    LET r == CryptReleaseContext(self.hcryptprov, ret)
    IN  [failed |-> r.ret = 0, native |-> <<r, r>>]

\* Drop::drop that does not call CryptReleaseContext.
drop_nothing(self, ret) == [failed |-> FALSE, native |-> <<>>]

\* Drop::drop (windows)
drop(self, ret) ==
    LET r == CryptReleaseContext(self.hcryptprov, ret)
    IN  [failed |-> r.ret = 0, native |-> <<r>>]

\* ------------------------------------------------------- unix: impl OSRng
\* Sequences of positive chunk sizes that add up to n.
RECURSIVE Comps(_)
Comps(n) ==
    IF n = 0 THEN { <<>> }
    ELSE UNION { { <<k>> \o c : c \in Comps(n - k) } : k \in 1 .. n }

\* What the device may answer to the reads that fill L bytes: the sizes of
\* the successive reads.  A pattern that adds up to less than L ends with a
\* read error.  Every pattern is taken up to MaxLen bytes, samples above.
ReadPatterns(L) ==
    IF L <= MaxLen THEN UNION { Comps(m) : m \in 0 .. L }
    ELSE { <<L>>, <<1, L - 1>>, <<L - 1, 1>>, <<L \div 2, L - (L \div 2)>>,
           <<1, 1, L - 2>>, <<L \div 2>>, <<>> }

Min(a, b) == IF a < b THEN a ELSE b

\* Reader::read_at_least as ReaderRng uses it: read into the unfilled part
\* of the len bytes until all are filled.  The k-th byte taken from the
\* device is k; data holds the bytes of a tracked buffer.
RECURSIVE read_at_least(_, _, _, _, _, _)
read_at_least(len, data, filled, consumed, reads, pat) ==
    IF filled >= len
    THEN [failed |-> FALSE, data |-> data, consumed |-> consumed, reads |-> reads]
    ELSE IF pat = <<>>
    THEN [failed |-> TRUE, data |-> data, consumed |-> consumed, reads |-> reads + 1]
    ELSE LET n == Min(Head(pat), len - filled)
         IN  read_at_least(len,
                 IF data = <<>> THEN data
                 ELSE SubSeq(data, 1, filled) \o [i \in 1 .. n |-> consumed + i]
                          \o SubSeq(data, filled + n + 1, Len(data)),
                 filled + n, consumed + n, reads + 1, Tail(pat))

\* The length of a buffer as a natural number (lengths below 2^31).
SmallLen(len) == len[1] + LimbBase * len[2]

\* ReaderRng::fill_bytes
ReaderRng_fill_bytes(reader, v, pat) ==
    LET r == read_at_least(SmallLen(v.len), v.data, 0, 0, 0, pat)
    IN  [failed |-> r.failed, v |-> [v EXCEPT !.data = r.data], native |-> <<>>,
         value |-> <<>>, consumed |-> r.consumed, reads |-> r.reads]

\* ReaderRng::next_u32 / next_u64: n bytes read from the device make the word.
ReaderRng_next(reader, n, pat) ==
    LET r == read_at_least(n, ZeroBuf(n).data, 0, 0, 0, pat)
    IN  [failed |-> r.failed, v |-> [ZeroBuf(n) EXCEPT !.data = r.data],
         native |-> <<>>,
         value |-> IF r.failed THEN <<>> ELSE transmute(r.data),
         consumed |-> r.consumed, reads |-> r.reads]

\* File::open(&Path::new("/dev/urandom"))
File_open(ret, fd) == [ok |-> ret # 0, fd |-> IF ret # 0 THEN fd ELSE 0]

\* OSRng::new (unix) without the `.expect(...)`.
unix_new_unchecked(ret, fd) ==
    LET reader == File_open(ret, fd)
    IN  [failed |-> FALSE, self |-> [inner |-> reader.fd]]

\* OSRng::new (unix)
unix_new(ret, fd) ==
    LET reader == File_open(ret, fd)
    IN  IF ~reader.ok THEN [failed |-> TRUE, self |-> [inner |-> 0]]
        ELSE [failed |-> FALSE, self |-> [inner |-> reader.fd]]

\* next_u32 / next_u64 (unix)
unix_next_u32(self, pat) == ReaderRng_next(self.inner, 4, pat)
unix_next_u64(self, pat) == ReaderRng_next(self.inner, 8, pat)

\* fill_bytes (unix) that hands the adapter the buffer less its last byte.
unix_fill_bytes_short(self, v, pat) ==
    IF Len(v.data) = 0 THEN ReaderRng_fill_bytes(self.inner, v, pat)
    ELSE LET n == Len(v.data)
             r == ReaderRng_fill_bytes(self.inner, MkBuf(U(n - 1)), pat)
         IN  [r EXCEPT !.v = [v EXCEPT !.data = r.v.data \o <<v.data[n]>>]]

\* fill_bytes (unix)
unix_fill_bytes(self, v, pat) == ReaderRng_fill_bytes(self.inner, v, pat)

\* File's destructor closes the descriptor; OSRng (unix) has no Drop of its own.
unix_drop(self) == [failed |-> FALSE, native |-> <<[ret |-> 1, hProv |-> self.inner]>>]

\* ------------------------------------------------------- operations on a task's value
Windows == variant = "windows"

Self(o) == IF Windows THEN [hcryptprov |-> hcryptprov[o]] ELSE [inner |-> inner[o]]

\* What the operating system may answer to an acquisition: failure, or a
\* resource that is not open at the moment.
AcquireOutcomes == { <<0, 0>> } \cup { <<1, h>> : h \in Handles \ osLive }

NewResult(e) == IF Windows THEN new(e[1], e[2]) ELSE unix_new(e[1], e[2])

FieldOf(self) == IF Windows THEN self.hcryptprov ELSE self.inner

\* OSRng::new() in task o, which is at `at`; `ok` tells whether it returns.
New(o, at, next, ok) ==
    /\ ~aborted
    /\ pc[o] = at
    /\ \E e \in AcquireOutcomes :
         LET r == NewResult(e)
         IN  /\ r.failed = ~ok
             /\ osLive' = IF e[1] # 0 THEN osLive \cup {e[2]} ELSE osLive
             /\ acquired' = [acquired EXCEPT ![o] = e[2]]
             /\ acqFailed' = [acqFailed EXCEPT ![o] = (e[1] = 0)]
             /\ IF r.failed
                THEN /\ pc' = [pc EXCEPT ![o] = "failed"]
                     /\ UNCHANGED <<st, hcryptprov, inner>>
                ELSE /\ pc' = [pc EXCEPT ![o] = next]
                     /\ st' = [st EXCEPT ![o] = "Ready"]
                     /\ IF Windows
                        THEN /\ hcryptprov' = [hcryptprov EXCEPT ![o] = FieldOf(r.self)]
                             /\ UNCHANGED inner
                        ELSE /\ inner' = [inner EXCEPT ![o] = FieldOf(r.self)]
                             /\ UNCHANGED hcryptprov
    /\ UNCHANGED <<variant, calls, used, out, aborted>>

WinDraw(op, self, len, ret, bytes) ==
    LET r == CASE op = "next_u32" -> next_u32(self, ret, bytes)
               [] op = "next_u64" -> next_u64(self, ret, bytes)
               [] OTHER -> fill_bytes(self, MkBuf(len), ret, bytes)
    IN  [op |-> op, failed |-> r.failed, v |-> r.v, native |-> r.native,
         value |-> IF op = "fill_bytes" THEN <<>> ELSE r.value,
         consumed |-> 0, reads |-> 0]

UnixDraw(op, self, len, pat) ==
    LET r == CASE op = "next_u32" -> unix_next_u32(self, pat)
               [] op = "next_u64" -> unix_next_u64(self, pat)
               [] OTHER -> unix_fill_bytes(self, MkBuf(len), pat)
    IN  [op |-> op, failed |-> r.failed, v |-> r.v, native |-> r.native,
         value |-> r.value, consumed |-> r.consumed, reads |-> r.reads]

WordLen(op, len) == CASE op = "next_u32" -> 4 [] op = "next_u64" -> 8 [] OTHER -> SmallLen(len)

\* Length of the buffer `v` each task of test_os_rng_tasks fills.
TestBufLen == 1000

\* Buffer lengths handed to fill_bytes: every uint on windows (samples on
\* both sides of 2^16 and 2^32), lengths whose reads are enumerated on unix.
WinLens == { U(0), U(1), U(8), U(TestBufLen), <<0, 1, 0, 0>>,
             <<LimbBase - 1, LimbBase - 1, 0, 0>>, <<0, 0, 1, 0>>, <<1000, 0, 1, 0>> }
UnixLens == { U(n) : n \in 0 .. MaxLen } \cup { U(TestBufLen) }

Ops == { "next_u32", "next_u64", "fill_bytes" }

\* Every outcome of draw operation `op` (on a buffer of length len for
\* fill_bytes) that the native side can produce, for each handle the value
\* may hold.
WinDrawResults ==
    [op \in Ops, h \in {0} \cup Handles, len \in WinLens |->
        { WinDraw(op, [hcryptprov |-> h], len, ret, bytes) :
              ret \in {0, 1}, bytes \in Samples }]

UnixDrawResults ==
    [op \in Ops, fd \in {0} \cup Handles, len \in UnixLens |->
        { UnixDraw(op, [inner |-> fd], len, pat) : pat \in ReadPatterns(WordLen(op, len)) }]

DrawResults(o, op, len) ==
    IF Windows THEN WinDrawResults[op, hcryptprov[o], len]
    ELSE UnixDrawResults[op, inner[o], len]

HandlesOf(native) == { native[i].hProv : i \in 1 .. Len(native) }

\* next_u32 / next_u64 / fill_bytes on the value of task o; `ok` tells whether
\* it returns; `keep` whether the caller looks at the outcome.  A failure
\* starts unwinding the task, which still owns the value.
Draw(o, at, op, len, next, ok, keep) ==
    /\ ~aborted
    /\ pc[o] = at
    /\ \E r \in DrawResults(o, op, len) :
         /\ r.failed = ~ok
         /\ calls' = [calls EXCEPT ![o].gen = @ + Len(r.native)]
         /\ used' = [used EXCEPT ![o] = @ \cup HandlesOf(r.native)]
         /\ out' = IF keep THEN r ELSE out
         /\ pc' = [pc EXCEPT ![o] = IF r.failed THEN "unwinding" ELSE next]
    /\ UNCHANGED <<variant, st, hcryptprov, inner, osLive, acquired, acqFailed, aborted>>

DropResult(o, ret) == IF Windows THEN drop(Self(o), ret) ELSE unix_drop(Self(o))

\* The value of task o goes out of scope (at = the end of its scope) or is
\* dropped by unwinding (at = "unwinding").  A failure inside drop fails the
\* task; a failure inside drop while the task is already unwinding aborts
\* the process.
Drop(o, at, ok) ==
    /\ ~aborted
    /\ pc[o] = at
    /\ \E ret \in (IF Windows THEN {0, 1} ELSE {1}) :
         LET r == DropResult(o, ret)
         IN  /\ r.failed = ~ok
             /\ calls' = [calls EXCEPT ![o].rel = @ + Len(r.native)]
             /\ used' = [used EXCEPT ![o] = @ \cup HandlesOf(r.native)]
             /\ osLive' = osLive \ { r.native[i].hProv :
                                       i \in { j \in 1 .. Len(r.native) : r.native[j].ret # 0 } }
             /\ st' = [st EXCEPT ![o] = "Released"]
             /\ pc' = [pc EXCEPT ![o] =
                          IF at # "unwinding" /\ ~r.failed THEN "done" ELSE "failed"]
             /\ aborted' = (at = "unwinding" /\ r.failed)
    /\ UNCHANGED <<variant, hcryptprov, inner, acquired, acqFailed, out>>

\* ------------------------------------------------------- a free owner (task 1)
\* The lengths a free owner hands to fill_bytes.
FillLens == IF Windows THEN WinLens ELSE { U(n) : n \in 0 .. MaxLen }

NoOut == [op |-> "none", failed |-> FALSE, v |-> ZeroBuf(0), native |-> <<>>,
          value |-> <<>>, consumed |-> 0, reads |-> 0]

InitCommon ==
    /\ variant \in { "unix", "windows" }
    /\ st = [t \in Tasks |-> "Uninitialized"]
    /\ hcryptprov = [t \in Tasks |-> 0]
    /\ inner = [t \in Tasks |-> 0]
    /\ osLive = {}
    /\ acquired = [t \in Tasks |-> 0]
    /\ calls = [t \in Tasks |-> [gen |-> 0, rel |-> 0]]
    /\ used = [t \in Tasks |-> {}]
    /\ acqFailed = [t \in Tasks |-> FALSE]
    /\ draws = [t \in Tasks |-> 0]
    /\ out = NoOut
    /\ aborted = FALSE
    /\ spawned = 0
    /\ sent = 0
    /\ chan = [t \in Tasks |-> 0]
    /\ iter = [t \in Tasks |-> 0]

\* test_os_rng, with the draws in any order and number: `let mut r = OSRng::new()`,
\* draws on r, end of scope.
Init ==
    /\ InitCommon
    /\ pc = [t \in Tasks |-> IF t = 1 THEN "new" ELSE "idle"]

FreeNewOk == New(1, "new", "body", TRUE) /\ UNCHANGED <<draws, testVars>>
FreeNewFail == New(1, "new", "body", FALSE) /\ UNCHANGED <<draws, testVars>>

FreeDrawOk ==
    /\ draws[1] < MaxDraws
    /\ \E op \in Ops : \E len \in (IF op = "fill_bytes" THEN FillLens ELSE {U(0)}) :
           Draw(1, "body", op, len, "body", TRUE, TRUE)
    /\ draws' = [draws EXCEPT ![1] = @ + 1]
    /\ UNCHANGED testVars

FreeDrawFail ==
    /\ draws[1] < MaxDraws
    /\ \E op \in Ops : \E len \in (IF op = "fill_bytes" THEN FillLens ELSE {U(0)}) :
           Draw(1, "body", op, len, "body", FALSE, TRUE)
    /\ draws' = [draws EXCEPT ![1] = @ + 1]
    /\ UNCHANGED testVars

FreeDropOk == Drop(1, "body", TRUE) /\ UNCHANGED <<draws, testVars>>
FreeDropFail == Drop(1, "body", FALSE) /\ UNCHANGED <<draws, testVars>>

UnwindDropOk == \E t \in Tasks : Drop(t, "unwinding", TRUE) /\ UNCHANGED <<draws, testVars>>
UnwindDropFail == \E t \in Tasks : Drop(t, "unwinding", FALSE) /\ UNCHANGED <<draws, testVars>>

Next ==
    \/ FreeNewOk
    \/ FreeNewFail
    \/ FreeDrawOk
    \/ FreeDrawFail
    \/ FreeDropOk
    \/ FreeDropFail
    \/ UnwindDropOk
    \/ UnwindDropFail

Spec == Init /\ [][Next]_vars

\* ------------------------------------------------------- test_os_rng_tasks
TasksInit ==
    /\ InitCommon
    /\ pc = [t \in Tasks |-> "unspawned"]

\* One turn of the spawn loop: create the channel, keep tx, spawn the task,
\* which starts by blocking in rx.recv().
Spawn ==
    /\ ~aborted
    /\ spawned < NWorkers
    /\ spawned' = spawned + 1
    /\ pc' = [pc EXCEPT ![spawned + 1] = "recv"]
    /\ UNCHANGED <<variant, instVars, draws, out, aborted, sent, chan, iter>>

\* The start signal sent from inside the spawn loop, to the task just spawned.
Send_early ==
    /\ ~aborted
    /\ sent < spawned
    /\ sent' = sent + 1
    /\ chan' = [chan EXCEPT ![sent + 1] = @ + 1]
    /\ UNCHANGED <<variant, instVars, pc, draws, out, aborted, spawned, iter>>

\* One turn of `for tx in txs.iter() { tx.send(()) }`, which follows the spawn loop.
Send ==
    /\ ~aborted
    /\ spawned = NWorkers
    /\ sent < NWorkers
    /\ sent' = sent + 1
    /\ chan' = [chan EXCEPT ![sent + 1] = @ + 1]
    /\ UNCHANGED <<variant, instVars, pc, draws, out, aborted, spawned, iter>>

\* rx.recv() returns in task w.
Recv(w) ==
    /\ ~aborted
    /\ pc[w] = "recv"
    /\ chan[w] > 0
    /\ chan' = [chan EXCEPT ![w] = @ - 1]
    /\ pc' = [pc EXCEPT ![w] = "new"]
    /\ UNCHANGED <<variant, instVars, draws, out, aborted, spawned, sent, iter>>

\* Where task w goes after operation op of its loop body returns.
AfterOp(w, op) ==
    CASE op = "next_u32" -> "next_u64"
      [] op = "next_u64" -> "fill_bytes"
      [] OTHER -> IF iter[w] + 1 < Iterations THEN "next_u32" ELSE "drop"

IterAfter(w, op) == IF op = "fill_bytes" THEN iter[w] + 1 ELSE iter[w]

WorkerNewOk(w) ==
    /\ New(w, "new", IF Iterations > 0 THEN "next_u32" ELSE "drop", TRUE)
    /\ UNCHANGED <<draws, testVars>>

WorkerNewFail(w) ==
    /\ New(w, "new", "next_u32", FALSE)
    /\ UNCHANGED <<draws, testVars>>

\* r.next_u32(); r.next_u64(); r.fill_bytes(v); the results are not looked at.
WorkerDrawOk(w) ==
    \E op \in Ops :
        /\ Draw(w, op, op, U(TestBufLen), AfterOp(w, op), TRUE, FALSE)
        /\ iter' = [iter EXCEPT ![w] = IterAfter(w, op)]
        /\ UNCHANGED <<draws, spawned, sent, chan>>

WorkerDrawFail(w) ==
    \E op \in Ops :
        /\ Draw(w, op, op, U(TestBufLen), AfterOp(w, op), FALSE, FALSE)
        /\ UNCHANGED <<draws, testVars>>

\* The end of the proc: r goes out of scope.
WorkerDropOk(w) == Drop(w, "drop", TRUE) /\ UNCHANGED <<draws, testVars>>
WorkerDropFail(w) == Drop(w, "drop", FALSE) /\ UNCHANGED <<draws, testVars>>

\* The test when no native call fails.
TasksNextOK ==
    \/ Spawn
    \/ Send
    \/ \E w \in Tasks : Recv(w)
    \/ \E w \in Tasks : WorkerNewOk(w)
    \/ \E w \in Tasks : WorkerDrawOk(w)
    \/ \E w \in Tasks : WorkerDropOk(w)

\* The test with native calls that may fail.
TasksNext ==
    \/ TasksNextOK
    \/ \E w \in Tasks : WorkerNewFail(w)
    \/ \E w \in Tasks : WorkerDrawFail(w)
    \/ \E w \in Tasks : WorkerDropFail(w)
    \/ UnwindDropOk
    \/ UnwindDropFail

SpecTasks == TasksInit /\ [][TasksNext]_vars

\* The scheduler runs every task that can run: the main task goes through its
\* two loops and each spawned task through its proc.
TasksFairness ==
    /\ WF_vars(Spawn)
    /\ WF_vars(Send)
    /\ \A w \in Tasks :
         WF_vars(Recv(w) \/ WorkerNewOk(w) \/ WorkerDrawOk(w) \/ WorkerDropOk(w))

SpecTasksOK == TasksInit /\ [][TasksNextOK]_vars /\ TasksFairness

\* ------------------------------------------------------- properties
\* The field of task t's value that names its native resource.
Field(t) == IF Windows THEN hcryptprov[t] ELSE inner[t]

\* Byte j (from 1, lowest address first) of a word on a little-endian target.
ByteOf(w, j) == (w[(j + 1) \div 2] \div (IF j % 2 = 1 THEN 1 ELSE 256)) % 256

\* C1 (windows): a value that new() created has CryptReleaseContext issued on
\* its own handle exactly once when its owner ends, normally or by a failure
\* that unwinds it: never while it is still in use, never twice, and never
\* zero times once the owning task has ended.
C1_ReleasedExactlyOnce ==
    Windows =>
        \A t \in Tasks :
            /\ calls[t].rel <= 1
            /\ (st[t] = "Ready" => calls[t].rel = 0)
            /\ (st[t] = "Released" => calls[t].rel = 1 /\ used[t] = {acquired[t]})
            /\ (pc[t] \in {"done", "failed"} /\ ~acqFailed[t] => st[t] = "Released")

C1_Witness ==
    /\ Windows
    /\ \E t \in Tasks :
         /\ pc[t] = "failed"
         /\ st[t] = "Released"
         /\ calls[t].gen > 0
         /\ calls[t].rel = 1
         /\ acquired[t] \notin osLive

\* C2 (both builds): when the native acquisition of new() fails, new() does
\* not return: no value exists, the task has failed, and no generation or
\* release call is ever issued for it.
C2_NoValueOnFailedAcquire ==
    \A t \in Tasks :
        acqFailed[t] =>
            /\ st[t] = "Uninitialized"
            /\ pc[t] = "failed"
            /\ hcryptprov[t] = 0
            /\ inner[t] = 0
            /\ calls[t] = [gen |-> 0, rel |-> 0]
            /\ used[t] = {}

C2_Witness == ~Windows /\ acqFailed[1] /\ pc[1] = "failed" /\ osLive = {}

\* C3: a native call that reports failure makes the operation that issued it
\* fail: a failed acquisition fails new(), a failed CryptGenRandom fails
\* fill_bytes / next_u32 / next_u64, which hand back no value, and a failed
\* release fails drop.
C3_FailureIsFatal ==
    /\ acqFailed[1] => pc[1] = "failed"
    /\ Windows =>
         /\ (\E i \in 1 .. Len(out.native) : out.native[i].ret = 0) =>
                out.failed /\ out.value = <<>>
         /\ out.failed => pc[1] \in {"unwinding", "failed"}
         /\ (st[1] = "Released" /\ acquired[1] \in osLive) => pc[1] = "failed"

C3_Witness ==
    /\ Windows
    /\ out.op = "next_u32"
    /\ out.failed
    /\ out.native[1].ret = 0
    /\ pc[1] = "unwinding"

\* C4: a live value names exactly the resource its own new() acquired, that
\* resource is open, no two live values name the same resource, and every
\* generation or release call made through a value passes its own handle.
C4_ExclusiveHandle ==
    \A t \in Tasks :
        /\ st[t] = "Ready" =>
             /\ Field(t) # 0
             /\ Field(t) = acquired[t]
             /\ Field(t) \in osLive
             /\ \A u \in Tasks \ {t} : st[u] = "Ready" => Field(u) # Field(t)
        /\ used[t] \subseteq {acquired[t]}

C4_Witness ==
    \E t, u \in Tasks :
        /\ t # u
        /\ st[t] = "Ready" /\ st[u] = "Ready"
        /\ calls[t].gen > 0 /\ calls[u].gen > 0

\* C5: the lifecycle is Uninitialized -> Ready -> Released: a value becomes
\* Ready only by a new() whose acquisition succeeded, a draw is made on a
\* Ready value only and leaves it Ready when it returns, the release is
\* issued from Ready only, and nothing leaves Released.
C5_Step ==
    \A t \in Tasks :
        /\ st'[t] # st[t] =>
             \/ st[t] = "Uninitialized" /\ st'[t] = "Ready" /\ ~acqFailed'[t]
             \/ st[t] = "Ready" /\ st'[t] = "Released" /\ calls'[t].rel # calls[t].rel
        /\ draws'[t] # draws[t] =>
             /\ st[t] = "Ready"
             /\ ~out'.failed => st'[t] = "Ready" /\ pc'[t] = pc[t]
        /\ calls'[t].gen # calls[t].gen => st[t] = "Ready"
        /\ calls'[t].rel # calls[t].rel => st[t] = "Ready"

C5_Lifecycle == [][C5_Step]_vars

C5_Witness ==
    /\ st[1] = "Released"
    /\ draws[1] = MaxDraws
    /\ ~out.failed
    /\ pc[1] = "done"

\* C6: with no native call failing, under every interleaving every task ends
\* having done all its iterations and released its value, no task fails, and
\* no draw or release of a task uses another task's resource.
C6_AllDone ==
    \A w \in Tasks :
        /\ pc[w] = "done"
        /\ iter[w] = Iterations
        /\ st[w] = "Released"
        /\ calls[w].rel = 1
        /\ acquired[w] \notin osLive

C6_NoCrossTalk ==
    /\ ~aborted
    /\ \A w \in Tasks :
         /\ pc[w] \notin {"unwinding", "failed"}
         /\ used[w] \subseteq {acquired[w]}
         /\ \A u \in Tasks \ {w} :
              st[u] = "Ready" /\ st[w] = "Ready" => Field(u) # Field(w)

C6_TasksComplete == []C6_NoCrossTalk /\ <>[]C6_AllDone

C6_Witness == C6_AllDone /\ Windows

\* C7 (windows): fill_bytes on a buffer of length L makes one CryptGenRandom
\* call whose dwLen, widened back, is L, so that L bytes have been written
\* when it returns.
C7_FullLength ==
    (Windows /\ out.op = "fill_bytes" /\ ~out.failed) =>
        /\ Len(out.native) = 1
        /\ ZeroExtend(out.native[1].dwLen) = out.v.len
        /\ ZeroExtend(out.native[1].written) = out.v.len

\* C8 (unix): fill_bytes returns only when the whole buffer holds the bytes
\* read from the device, in the order read, whatever the sizes of the reads,
\* and it takes exactly as many bytes from the device as the buffer is long.
C8_StreamFill ==
    (~Windows /\ out.op = "fill_bytes" /\ ~out.failed) =>
        /\ Len(out.v.data) = SmallLen(out.v.len)
        /\ out.v.data = [i \in 1 .. SmallLen(out.v.len) |-> i]
        /\ out.consumed = SmallLen(out.v.len)

C8_Witness ==
    /\ ~Windows
    /\ out.op = "fill_bytes"
    /\ ~out.failed
    /\ out.v.len = U(MaxLen)
    /\ out.reads = MaxLen

\* C9 (windows): next_u32 / next_u64 make one CryptGenRandom call of 4 / 8
\* bytes and return the word whose bytes, lowest address first, are the
\* bytes that call wrote.
C9_WordIsBytes ==
    (Windows /\ out.op \in {"next_u32", "next_u64"} /\ ~out.failed) =>
        LET n == IF out.op = "next_u32" THEN 4 ELSE 8
        IN  /\ Len(out.native) = 1
            /\ out.native[1].dwLen = <<n, 0>>
            /\ out.v.len = U(n)
            /\ Len(out.native[1].bytes) = n
            /\ Len(out.value) * 2 = n
            /\ \A j \in 1 .. n : ByteOf(out.value, j) = out.native[1].bytes[j]

C9_Witness ==
    /\ Windows
    /\ out.op = "next_u64"
    /\ ~out.failed
    /\ out.native[1].bytes = [i \in 1 .. 8 |-> i]
    /\ out.value = <<513, 1027, 1541, 2055>>

\* C10: no task calls OSRng::new() or draws before every task is spawned;
\* the main task sends each task one start signal, after the spawn loop; and
\* every task receives its signal and runs its iterations to the end.
C10_Barrier ==
    \A w \in Tasks :
        /\ pc[w] \notin {"unspawned", "recv"} => spawned = NWorkers
        /\ st[w] # "Uninitialized" => spawned = NWorkers
        /\ sent > 0 => spawned = NWorkers
        /\ chan[w] + (IF pc[w] \in {"unspawned", "recv"} THEN 0 ELSE 1)
             = (IF w <= sent THEN 1 ELSE 0)

C10_StartTogether ==
    /\ []C10_Barrier
    /\ \A w \in Tasks : <>(pc[w] = "done" /\ iter[w] = Iterations)

C10_Witness ==
    \E w, u \in Tasks :
        /\ pc[w] = "recv" /\ chan[w] = 0
        /\ pc[u] = "next_u64"
        /\ sent < NWorkers

====
